---- MODULE Spec2Model ----
(***************************************************************************)
(* A model of qrgen (src/qrgen/cli.py): the content-template formatter     *)
(* _apply_template, the generation dispatcher create_qr_code with its      *)
(* micro variant _create_micro_qr, and the command-line entry point main.  *)
(*                                                                         *)
(* Python strings that the code splits, upper-cases or concatenates are    *)
(* sequences of one-character strings.  Values the code only compares or   *)
(* passes on (paths, levels, the template kind) are atomic strings, with   *)
(* None standing for Python's None.  The external encoders and the imaging *)
(* library are black boxes: each call is logged in `events` and may raise. *)
(***************************************************************************)
EXTENDS Integers, Sequences, FiniteSets, TLC

VARIABLES
    entry,            \* the function the caller invoked
    pc,               \* position in the code
    args,             \* main: the argparse namespace
    template_type,    \* _apply_template: parameter
    data,             \* _apply_template: parameter
    fields,           \* _apply_template: values read by input() so far
    result,           \* _apply_template: returned string
    qr_data,          \* create_qr_code: parameter data (main: local data)
    output_path,      \* create_qr_code: parameter (main: local output_path)
    error_correction, \* create_qr_code: parameter
    terminal,         \* create_qr_code: parameter
    logo_path,        \* create_qr_code: parameter
    qr_type,          \* create_qr_code: parameter
    ret,              \* create_qr_code: returned value
    exit_code,        \* main: returned value
    exc,              \* exception that left the invoked function uncaught
    events,           \* calls to collaborators and console I/O, in order
    files,            \* paths of the image files written, whole or in part
    qr_given,         \* _embed_logo: the image as the caller passed it
    qr_img,           \* _embed_logo: parameter, later the image it returns
    logo,             \* _embed_logo: the opened logo image
    logo_size,        \* _embed_logo: edge of the box the logo is fitted into
    logo_bg,          \* _embed_logo: the white backing with the logo on it
    logo_pos,         \* _embed_logo: where the logo goes on the backing
    logo_pos_on_qr    \* _embed_logo: where the backing goes on the QR image

vars == <<entry, pc, args, template_type, data, fields, result, qr_data,
          output_path, error_correction, terminal, logo_path, qr_type, ret,
          exit_code, exc, events, files, qr_given, qr_img, logo, logo_size,
          logo_bg, logo_pos, logo_pos_on_qr>>

logoVars ==
    <<qr_given, qr_img, logo, logo_size, logo_bg, logo_pos, logo_pos_on_qr>>

-----------------------------------------------------------------------------
(* Bounds and input sets *)

MaxLen == 6
MaxSide == 25

None == "<None>"
NotReturned == "<not returned>"
NoExit == 0 - 1
EOF == <<"<EOF>">>

\* Characters of the raw template input: a lower-case letter, the field
\* separator and a character that is reserved in the payload formats.
Alphabet == {"a", ",", "&"}

RECURSIVE StrsOfLen(_)
StrsOfLen(n) ==
    IF n = 0 THEN {<<>>}
    ELSE {<<c>> \o s : c \in Alphabet, s \in StrsOfLen(n - 1)}

Strs == UNION {StrsOfLen(n) : n \in 0..MaxLen}

TemplateKinds == {"wifi", "vcard", "sms", "email", "phone", None, "unknown"}

\* Lines typed at an interactive prompt.
FieldLines == {<<>>, <<"a">>, <<"a", ",", "&">>}
EncryptionLines ==
    { <<>>, <<"w", "p", "a">>, <<"W", "P", "A">>, <<"W", "e", "p">>,
      <<"n", "o", "p", "a", "s", "s">>, <<"N", "O", "P", "A", "S", "S">>,
      <<"w", "p", "a", "2">>, <<"a">> }

-----------------------------------------------------------------------------
(* Python string operations *)

LowerCase == <<"a", "b", "c", "d", "e", "f", "g", "h", "i", "j", "k", "l", "m",
               "n", "o", "p", "q", "r", "s", "t", "u", "v", "w", "x", "y", "z">>
UpperCase == <<"A", "B", "C", "D", "E", "F", "G", "H", "I", "J", "K", "L", "M",
               "N", "O", "P", "Q", "R", "S", "T", "U", "V", "W", "X", "Y", "Z">>

\* str.upper() on one character
UpperChar(c) ==
    IF \E i \in DOMAIN LowerCase : LowerCase[i] = c
    THEN UpperCase[CHOOSE i \in DOMAIN LowerCase : LowerCase[i] = c]
    ELSE c

\* str.upper()
Upper(s) == [i \in DOMAIN s |-> UpperChar(s[i])]

\* index of the first sep in s, 0 when there is none
Find(s, sep) ==
    IF \E i \in DOMAIN s : s[i] = sep
    THEN CHOOSE i \in DOMAIN s : s[i] = sep /\ \A j \in 1..(i - 1) : s[j] # sep
    ELSE 0

\* s.split(sep, maxsplit); maxsplit = -1 puts no limit on the splits
RECURSIVE Split(_, _, _)
Split(s, sep, maxsplit) ==
    LET i == Find(s, sep) IN
    IF maxsplit = 0 \/ i = 0 THEN <<s>>
    ELSE <<SubSeq(s, 1, i - 1)>>
         \o Split(SubSeq(s, i + 1, Len(s)), sep, maxsplit - 1)

-----------------------------------------------------------------------------
(* Side effects and control transfer *)

Ev(op, arg, d) == [op |-> op, arg |-> arg, data |-> d]

Truthy(p) == p # None /\ p # ""

\* return from _apply_template: to main's call site, or to the caller
TemplateReturn(value) ==
    /\ result' = value
    /\ fields' = <<>>
    /\ IF entry = "main"
       THEN /\ qr_data' = value
            /\ pc' = "main_output"
       ELSE /\ pc' = "done"
            /\ UNCHANGED qr_data

\* bug: main swallows the exception and goes on with what it has
TemplateRaiseSwallowed(name) ==
    /\ exc' = name
    /\ pc' = IF entry = "main" THEN "main_output" ELSE "raised"

\* an exception leaves _apply_template; main has no handler around the call
TemplateRaise(name) ==
    /\ exc' = name
    /\ pc' = "raised"

-----------------------------------------------------------------------------
(* _apply_template *)

\* bug: the encryption given in the raw input is normalised to upper case
WifiPayloadUpperCased(encryption, ssid, password) ==
    <<"W", "I", "F", "I", ":", "T", ":">> \o Upper(encryption)
    \o <<";", "S", ":">> \o ssid \o <<";", "P", ":">> \o password
    \o <<";", ";">>

WifiPayload(encryption, ssid, password) ==
    <<"W", "I", "F", "I", ":", "T", ":">> \o encryption
    \o <<";", "S", ":">> \o ssid \o <<";", "P", ":">> \o password
    \o <<";", ";">>

\* bug: the typed encryption is validated without being upper-cased
WifiPromptedEncryptionNoUpper(line) ==
    IF line \notin { <<"W", "P", "A">>, <<"W", "E", "P">>,
                     <<"N", "O", "P", "A", "S", "S">> }
    THEN <<"W", "P", "A">>
    ELSE line

\* the encryption typed at the prompt, as the code normalises it
WifiPromptedEncryption(line) ==
    LET encryption == Upper(line) IN
    IF encryption \notin { <<"W", "P", "A">>, <<"W", "E", "P">>,
                           <<"N", "O", "P", "A", "S", "S">> }
    THEN <<"W", "P", "A">>
    ELSE encryption

\* bug: the TEL line is emitted even when the phone is empty
VcardPayloadBlankTel(name, phone, email, org) ==
    <<"B", "E", "G", "I", "N", ":", "V", "C", "A", "R", "D", "\n">>
    \o <<"V", "E", "R", "S", "I", "O", "N", ":", "3", ".", "0", "\n">>
    \o <<"F", "N", ":">> \o name \o <<"\n">>
    \o <<"T", "E", "L", ":">> \o phone \o <<"\n">>
    \o (IF email # <<>>
        THEN <<"E", "M", "A", "I", "L", ":">> \o email \o <<"\n">>
        ELSE <<>>)
    \o (IF org # <<>> THEN <<"O", "R", "G", ":">> \o org \o <<"\n">>
        ELSE <<>>)
    \o <<"E", "N", "D", ":", "V", "C", "A", "R", "D">>

VcardPayload(name, phone, email, org) ==
    <<"B", "E", "G", "I", "N", ":", "V", "C", "A", "R", "D", "\n">>
    \o <<"V", "E", "R", "S", "I", "O", "N", ":", "3", ".", "0", "\n">>
    \o <<"F", "N", ":">> \o name \o <<"\n">>
    \o (IF phone # <<>> THEN <<"T", "E", "L", ":">> \o phone \o <<"\n">>
        ELSE <<>>)
    \o (IF email # <<>>
        THEN <<"E", "M", "A", "I", "L", ":">> \o email \o <<"\n">>
        ELSE <<>>)
    \o (IF org # <<>> THEN <<"O", "R", "G", ":">> \o org \o <<"\n">>
        ELSE <<>>)
    \o <<"E", "N", "D", ":", "V", "C", "A", "R", "D">>

VcardFromParts(parts) ==
    VcardPayload(parts[1], parts[2],
                 IF Len(parts) > 2 THEN parts[3] ELSE <<>>,
                 IF Len(parts) > 3 THEN parts[4] ELSE <<>>)

\* bug: split(",") without maxsplit, so a message with a comma has three parts
SmsPayloadSplitAll(raw) ==
    LET parts == Split(raw, ",", 0 - 1)
        phone == IF Len(parts) = 2 THEN parts[1] ELSE raw
        message == IF Len(parts) = 2 THEN parts[2] ELSE <<>>
    IN <<"S", "M", "S", "T", "O", ":">> \o phone \o <<":">> \o message

SmsPayload(raw) ==
    LET parts == Split(raw, ",", 1)
        phone == IF Len(parts) = 2 THEN parts[1] ELSE raw
        message == IF Len(parts) = 2 THEN parts[2] ELSE <<>>
    IN <<"S", "M", "S", "T", "O", ":">> \o phone \o <<":">> \o message

\* bug: split(",") without maxsplit, so the body ends at the third comma
EmailPayloadSplitAll(raw) ==
    LET parts == Split(raw, ",", 0 - 1)
        email == parts[1]
        subject == IF Len(parts) > 1 THEN parts[2] ELSE <<>>
        body == IF Len(parts) > 2 THEN parts[3] ELSE <<>>
    IN <<"m", "a", "i", "l", "t", "o", ":">> \o email
       \o <<"?", "s", "u", "b", "j", "e", "c", "t", "=">> \o subject
       \o <<"&", "b", "o", "d", "y", "=">> \o body

EmailPayload(raw) ==
    LET parts == Split(raw, ",", 2)
        email == IF Len(parts) >= 1 THEN parts[1] ELSE raw
        subject == IF Len(parts) >= 1 /\ Len(parts) > 1 THEN parts[2] ELSE <<>>
        body == IF Len(parts) >= 1 /\ Len(parts) > 2 THEN parts[3] ELSE <<>>
    IN <<"m", "a", "i", "l", "t", "o", ":">> \o email
       \o <<"?", "s", "u", "b", "j", "e", "c", "t", "=">> \o subject
       \o <<"&", "b", "o", "d", "y", "=">> \o body

\* bug: the number is cut at the first comma, as the other templates do
PhonePayloadFirstField(raw) == <<"t", "e", "l", ":">> \o Split(raw, ",", 1)[1]

PhonePayload(raw) == <<"t", "e", "l", ":">> \o raw

\* input(prompt): the prompt is written, then a line is read or EOFError
\* raised; the event records the prompt and the line (EOF when none came)
Input(at, prompt, lines, next) ==
    /\ pc = at
    /\ \E line \in lines \cup {EOF} :
          /\ events' = Append(events, Ev("input", prompt, line))
          /\ IF line = EOF
             THEN /\ TemplateRaise("EOFError")
                  /\ UNCHANGED <<fields, result, qr_data>>
             ELSE /\ fields' = Append(fields, line)
                  /\ pc' = next
                  /\ UNCHANGED <<exc, result, qr_data>>
    /\ UNCHANGED <<entry, args, template_type, data, output_path,
                   error_correction, terminal, logo_path, qr_type, ret,
                   exit_code, files, logoVars>>

TemplateFrame ==
    UNCHANGED <<entry, args, template_type, data, output_path,
                error_correction, terminal, logo_path, qr_type, ret,
                exit_code, exc, files, logoVars>>

\* bug: extra fields are accepted instead of prompting
WifiHasAtLeastFields(parts) == Len(parts) >= 3

\* the wifi input carries its fields: len(parts) == 3
WifiHasFields(parts) == Len(parts) = 3

\* the vcard input carries its fields: len(parts) >= 2
VcardHasFields(parts) == Len(parts) >= 2

ApplyWifi ==
    /\ pc = "apply_template"
    /\ template_type = "wifi"
    /\ LET parts == Split(data, ",", 0 - 1) IN
       IF WifiHasFields(parts)
       THEN /\ TemplateReturn(WifiPayload(parts[3], parts[1], parts[2]))
            /\ UNCHANGED events
       ELSE /\ events' = Append(events,
                                Ev("print", "WiFi QR Code Generator", <<>>))
            /\ pc' = "wifi_ssid"
            /\ UNCHANGED <<fields, result, qr_data>>
    /\ TemplateFrame

WifiSsid == Input("wifi_ssid", "Network SSID: ", FieldLines, "wifi_password")

WifiPassword ==
    Input("wifi_password", "Password: ", FieldLines, "wifi_encryption")

\* the last prompt of the wifi path, then the formatting and the return
WifiEncryption ==
    /\ pc = "wifi_encryption"
    /\ \E line \in EncryptionLines \cup {EOF} :
          /\ events' = Append(events,
                  Ev("input", "Encryption (WPA/WEP/nopass): ", line))
          /\ IF line = EOF
             THEN /\ TemplateRaise("EOFError")
                  /\ UNCHANGED <<fields, result, qr_data>>
             ELSE /\ TemplateReturn(
                        WifiPayload(WifiPromptedEncryption(line),
                                    fields[1], fields[2]))
                  /\ UNCHANGED exc
    /\ UNCHANGED <<entry, args, template_type, data, output_path,
                   error_correction, terminal, logo_path, qr_type, ret,
                   exit_code, files, logoVars>>

ApplyVcard ==
    /\ pc = "apply_template"
    /\ template_type = "vcard"
    /\ LET parts == Split(data, ",", 0 - 1) IN
       IF VcardHasFields(parts)
       THEN /\ TemplateReturn(VcardFromParts(parts))
            /\ UNCHANGED events
       ELSE /\ events' = Append(events,
                                Ev("print", "vCard QR Code Generator", <<>>))
            /\ pc' = "vcard_name"
            /\ UNCHANGED <<fields, result, qr_data>>
    /\ TemplateFrame

VcardName == Input("vcard_name", "Full Name: ", FieldLines, "vcard_phone")

VcardPhone == Input("vcard_phone", "Phone: ", FieldLines, "vcard_email")

VcardEmail == Input("vcard_email", "Email: ", FieldLines, "vcard_org")

\* the last prompt of the vcard path, then the formatting and the return
VcardOrg ==
    /\ pc = "vcard_org"
    /\ \E line \in FieldLines \cup {EOF} :
          /\ events' = Append(events,
                  Ev("input", "Organization (optional): ", line))
          /\ IF line = EOF
             THEN /\ TemplateRaise("EOFError")
                  /\ UNCHANGED <<fields, result, qr_data>>
             ELSE /\ TemplateReturn(
                        VcardPayload(fields[1], fields[2], fields[3], line))
                  /\ UNCHANGED exc
    /\ UNCHANGED <<entry, args, template_type, data, output_path,
                   error_correction, terminal, logo_path, qr_type, ret,
                   exit_code, files, logoVars>>

ApplySms ==
    /\ pc = "apply_template"
    /\ template_type = "sms"
    /\ TemplateReturn(SmsPayload(data))
    /\ UNCHANGED events
    /\ TemplateFrame

ApplyEmail ==
    /\ pc = "apply_template"
    /\ template_type = "email"
    /\ TemplateReturn(EmailPayload(data))
    /\ UNCHANGED events
    /\ TemplateFrame

ApplyPhone ==
    /\ pc = "apply_template"
    /\ template_type = "phone"
    /\ TemplateReturn(PhonePayload(data))
    /\ UNCHANGED events
    /\ TemplateFrame

ApplyPassthrough ==
    /\ pc = "apply_template"
    /\ template_type \notin {"wifi", "vcard", "sms", "email", "phone"}
    /\ TemplateReturn(data)
    /\ UNCHANGED events
    /\ TemplateFrame

\* the steps of _apply_template for the five kinds argparse admits
NextTemplateKind ==
    \/ ApplyWifi
    \/ WifiSsid
    \/ WifiPassword
    \/ WifiEncryption
    \/ ApplyVcard
    \/ VcardName
    \/ VcardPhone
    \/ VcardEmail
    \/ VcardOrg
    \/ ApplySms
    \/ ApplyEmail
    \/ ApplyPhone

\* a direct caller may also pass None or an unrecognized kind
NextTemplate == NextTemplateKind \/ ApplyPassthrough

-----------------------------------------------------------------------------
(* create_qr_code and _create_micro_qr *)

\* Inputs of a direct call.
QrPayloads == {<<"a">>, <<"a", ",", "a">>}
OutputPaths == {None, "", "out.png"}
LogoPaths == {None, "", "logo.png"}
ErrorLevels == {"L", "M", "Q", "H"}
QrTypes == {"standard", "micro"}

\* bug: main has no handler (or too narrow a one), the exception escapes
CreateRaiseUncaught(evs, written) ==
    /\ events' = evs
    /\ exc' = evs[Len(evs)].op
    /\ pc' = "raised"
    /\ files' = written
    /\ UNCHANGED <<ret, exit_code>>

\* bug: the failure undoes the terminal render
CreateRaiseRollsBack(evs, written) ==
    LET kept == SelectSeq(evs, LAMBDA e :
                              e.op \notin {"print_ascii", "qr.terminal"})
    IN /\ IF entry = "main"
          THEN /\ events' = Append(kept,
                                   Ev("stderr", "Error generating QR code",
                                      <<evs[Len(evs)].op>>))
               /\ exit_code' = 1
               /\ pc' = "done"
               /\ UNCHANGED exc
          ELSE /\ events' = kept
               /\ exc' = evs[Len(evs)].op
               /\ pc' = "raised"
               /\ UNCHANGED exit_code
       /\ files' = written
       /\ UNCHANGED ret

\* the last call logged in evs raises and the exception leaves
\* create_qr_code: main catches it, reports it on standard error (the
\* message names the exception, here by the call that raised it) and
\* returns 1; a direct caller receives it
CreateRaise(evs, written) ==
    /\ IF entry = "main"
       THEN /\ events' = Append(evs, Ev("stderr", "Error generating QR code",
                                        <<evs[Len(evs)].op>>))
            /\ exit_code' = 1
            /\ pc' = "done"
            /\ UNCHANGED exc
       ELSE /\ events' = evs
            /\ exc' = evs[Len(evs)].op
            /\ pc' = "raised"
            /\ UNCHANGED exit_code
    /\ files' = written
    /\ UNCHANGED ret

\* create_qr_code returns value; main then returns 0
CreateReturn(value) ==
    /\ ret' = value
    /\ pc' = "done"
    /\ exit_code' = IF entry = "main" THEN 0 ELSE exit_code
    /\ UNCHANGED exc

CreateFrame ==
    UNCHANGED <<entry, args, template_type, data, fields, result, qr_data,
                output_path, error_correction, terminal, logo_path, qr_type,
                logoVars>>

\* bug: the micro map is used for the standard encoder too, H becomes Q
StandardErrorLevelRemapsH(level) ==
    CASE level = "L" -> "L"
      [] level = "M" -> "M"
      [] level = "Q" -> "Q"
      [] level = "H" -> "Q"
      [] OTHER -> "M"

\* error_levels.get(error_correction, qrcode.constants.ERROR_CORRECT_M)
StandardErrorLevel(level) == IF level \in ErrorLevels THEN level ELSE "M"

\* bug: the H entry of the map is left as H, which Micro QR does not support
MicroErrorLevelKeepsH(level) == IF level \in ErrorLevels THEN level ELSE "M"

\* error_map.get(error_correction, "M")
MicroErrorLevel(level) ==
    CASE level = "L" -> "L"
      [] level = "M" -> "M"
      [] level = "Q" -> "Q"
      [] level = "H" -> "Q"
      [] OTHER -> "M"

\* bug: the return of the path is missing, the function falls through
ReturnedPathDropped(path) == None

\* what create_qr_code returns after if output_path: ... return output_path
ReturnedPath(path) == IF Truthy(path) THEN path ELSE None

\* bug: elif output_path, so that a terminal render suppresses the file
SavesFileUnlessTerminal(path) == Truthy(path) /\ ~terminal

\* if output_path:
SavesFile(path) == Truthy(path)

\* bug: the logo is embedded whether or not --logo was given
EmbedsLogoAlways(path) == TRUE

\* if logo_path:
EmbedsLogo(path) == Truthy(path)

\* bug: the micro branch is missing, every request goes to the standard encoder
DispatchIgnoresType ==
    /\ pc = "create_qr_code"
    /\ pc' = "std_make"
    /\ UNCHANGED <<ret, exit_code, exc, events, files>>
    /\ CreateFrame

\* if qr_type == "micro": return _create_micro_qr(...)
Dispatch ==
    /\ pc = "create_qr_code"
    /\ pc' = IF qr_type = "micro" THEN "micro_make" ELSE "std_make"
    /\ UNCHANGED <<ret, exit_code, exc, events, files>>
    /\ CreateFrame

\* bug: a failed construction is tried again instead of propagating
StdMakeRetries ==
    /\ pc = "std_make"
    /\ events' = Append(events,
                     Ev("qrcode.make", StandardErrorLevel(error_correction),
                        qr_data))
    /\ \E fails \in BOOLEAN : pc' = IF fails THEN "std_make" ELSE "std_terminal"
    /\ UNCHANGED <<ret, exit_code, exc, files>>
    /\ CreateFrame

\* qrcode.QRCode(version=1, error_correction=...), add_data, make(fit=True)
StdMake ==
    /\ pc = "std_make"
    /\ LET evs == Append(events,
                     Ev("qrcode.make", StandardErrorLevel(error_correction),
                        qr_data))
       IN \E fails \in BOOLEAN :
             IF fails
             THEN CreateRaise(evs, files)
             ELSE /\ events' = evs
                  /\ pc' = "std_terminal"
                  /\ UNCHANGED <<ret, exit_code, exc, files>>
    /\ CreateFrame

\* if terminal: qr.print_ascii(invert=True); print()
StdTerminal ==
    /\ pc = "std_terminal"
    /\ events' = IF terminal
                 THEN Append(events, Ev("print_ascii", "invert", <<>>))
                 ELSE events
    /\ pc' = "std_output"
    /\ UNCHANGED <<ret, exit_code, exc, files>>
    /\ CreateFrame

\* if output_path: img = qr.make_image(...) -- else return None
StdOutput ==
    /\ pc = "std_output"
    /\ IF SavesFile(output_path)
       THEN LET evs == Append(events, Ev("make_image", "", <<>>))
            IN \E fails \in BOOLEAN :
                  IF fails
                  THEN CreateRaise(evs, files)
                  ELSE /\ events' = evs
                       /\ pc' = "std_logo"
                       /\ UNCHANGED <<ret, exit_code, exc, files>>
       ELSE /\ CreateReturn(ReturnedPath(output_path))
            /\ UNCHANGED <<events, files>>
    /\ CreateFrame

\* if logo_path: img = _embed_logo(img, logo_path)
\* (here only the call and its failure; the geometry is in SpecLogo)
StdLogo ==
    /\ pc = "std_logo"
    /\ IF EmbedsLogo(logo_path)
       THEN LET evs == Append(events, Ev("Image.open", logo_path, <<>>))
            IN \E fails \in BOOLEAN :
                  IF fails
                  THEN CreateRaise(evs, files)
                  ELSE /\ events' = Append(evs, Ev("paste", logo_path, <<>>))
                       /\ pc' = "std_save"
                       /\ UNCHANGED <<ret, exit_code, exc, files>>
       ELSE /\ pc' = "std_save"
            /\ UNCHANGED <<ret, exit_code, exc, events, files>>
    /\ CreateFrame

\* img.save(output_path); print(...); return output_path
\* (the write is not atomic: a failing save may leave a partial file)
StdSave ==
    /\ pc = "std_save"
    /\ LET evs == Append(events, Ev("img.save", output_path, <<>>))
       IN \E fails \in BOOLEAN, partial \in BOOLEAN :
             IF fails
             THEN CreateRaise(evs, IF partial THEN files \cup {output_path}
                                   ELSE files)
             ELSE /\ events' = evs
                  /\ files' = files \cup {output_path}
                  /\ CreateReturn(ReturnedPath(output_path))
    /\ CreateFrame

\* qr = segno.make_micro(data, error=error)
MicroMake ==
    /\ pc = "micro_make"
    /\ LET evs == Append(events,
                     Ev("segno.make_micro", MicroErrorLevel(error_correction),
                        qr_data))
       IN \E fails \in BOOLEAN :
             IF fails
             THEN CreateRaise(evs, files)
             ELSE /\ events' = evs
                  /\ pc' = "micro_terminal"
                  /\ UNCHANGED <<ret, exit_code, exc, files>>
    /\ CreateFrame

\* if terminal: qr.terminal(); print()
MicroTerminal ==
    /\ pc = "micro_terminal"
    /\ events' = IF terminal
                 THEN Append(events, Ev("qr.terminal", "", <<>>))
                 ELSE events
    /\ pc' = "micro_output"
    /\ UNCHANGED <<ret, exit_code, exc, files>>
    /\ CreateFrame

\* if output_path: qr.save(...); print(...); return output_path
\* return None
MicroOutput ==
    /\ pc = "micro_output"
    /\ IF SavesFile(output_path)
       THEN LET evs == Append(events, Ev("qr.save", output_path, <<>>))
            IN \E fails \in BOOLEAN, partial \in BOOLEAN :
                  IF fails
                  THEN CreateRaise(evs, IF partial
                                        THEN files \cup {output_path}
                                        ELSE files)
                  ELSE /\ events' = evs
                       /\ files' = files \cup {output_path}
                       /\ CreateReturn(ReturnedPath(output_path))
       ELSE /\ CreateReturn(ReturnedPath(output_path))
            /\ UNCHANGED <<events, files>>
    /\ CreateFrame

NextCreate ==
    \/ Dispatch
    \/ StdMake
    \/ StdTerminal
    \/ StdOutput
    \/ StdLogo
    \/ StdSave
    \/ MicroMake
    \/ MicroTerminal
    \/ MicroOutput

-----------------------------------------------------------------------------
(* _embed_logo *)

\* An image is its mode, its size and its pixels, px[<<x, y>>] with <<0, 0>>
\* the upper left corner.
NoImage == [mode |-> None, w |-> 0, h |-> 0, px |-> <<>>]

Coords(w, h) == (0..(w - 1)) \X (0..(h - 1))

\* the modules of a QR image, dark and light
QrPixel(p) == IF (p[1] + p[2]) % 2 = 0 THEN "dark" ELSE "light"

\* the pixels of a logo; an RGBA logo has transparent ones
OpaqueLogoPixel(p) == "logo"
AlphaLogoPixel(p) == IF (p[1] + p[2]) % 2 = 0 THEN "clear" ELSE "logo"

\* the image qr.make_image hands over: mode "1" by default, "RGB" with
\* colours
QrImage(mode, w, h) ==
    [mode |-> mode, w |-> w, h |-> h,
     px |-> [p \in Coords(w, h) |-> QrPixel(p)]]

\* Image.new("RGB", (w, h), "white")
NewWhite(w, h) ==
    [mode |-> "RGB", w |-> w, h |-> h,
     px |-> [p \in Coords(w, h) |-> "white"]]

\* The logo files Image.open may find: mode, width, height.
Logos ==
    {[mode |-> m, w |-> d[1], h |-> d[2]] :
        m \in {"RGB", "RGBA"},
        d \in {<<1, 1>>, <<3, 2>>, <<2, 7>>, <<30, 30>>, <<40, 10>>}}

LogoImage(mode, w, h) ==
    [mode |-> mode, w |-> w, h |-> h,
     px |-> [p \in Coords(w, h) |->
                IF mode = "RGBA" THEN AlphaLogoPixel(p)
                ELSE OpaqueLogoPixel(p)]]

NoLogoState ==
    /\ qr_given = NoImage
    /\ qr_img = NoImage
    /\ logo = NoImage
    /\ logo_size = 0
    /\ logo_bg = NoImage
    /\ logo_pos = <<0, 0>>
    /\ logo_pos_on_qr = <<0, 0>>

Min(a, b) == IF a <= b THEN a ELSE b
Max(a, b) == IF a >= b THEN a ELSE b
Abs(a) == IF a >= 0 THEN a ELSE 0 - a

\* dst.paste(src, pos) and dst.paste(src, pos, mask): the pixels of src go to
\* pos and below/right of it, clipped to dst; with a mask the transparent
\* pixels of src leave dst as it is
Paste(dst, src, pos, masked) ==
    [dst EXCEPT !.px =
        [p \in DOMAIN dst.px |->
            LET q == <<p[1] - pos[1], p[2] - pos[2]>> IN
            IF q \in DOMAIN src.px /\ ~(masked /\ src.px[q] = "clear")
            THEN src.px[q]
            ELSE dst.px[p]]]

\* Image.thumbnail's round_aspect for the width: the nearer of floor and
\* ceiling of y * w / h, the floor on a tie, at least 1
ThumbnailWidth(w, h, y) ==
    LET f == (y * w) \div h
        c == IF (y * w) % h = 0 THEN f ELSE f + 1
    IN Max(IF Abs(w * y - f * h) <= Abs(w * y - c * h) THEN f ELSE c, 1)

\* the same for the height, from x * h / w
ThumbnailHeight(w, h, x) ==
    LET f == (x * h) \div w
        c == IF (x * h) % w = 0 THEN f ELSE f + 1
    IN Max(IF f = 0 \/ Abs(w * f - x * h) * c <= Abs(w * c - x * h) * f
           THEN f ELSE c, 1)

\* logo.thumbnail((x, y)) for y > 0: the size of the logo afterwards; an
\* image that fits is left alone, a larger one keeps its aspect ratio
ThumbnailSize(w, h, x, y) ==
    IF x >= w /\ y >= h THEN <<w, h>>
    ELSE IF x * h >= w * y THEN <<ThumbnailWidth(w, h, y), y>>
    ELSE <<x, ThumbnailHeight(w, h, x)>>

\* logo_size = min(qr_width, qr_height) // 5
LogoSize(qr_width, qr_height) == Min(qr_width, qr_height) \div 5

\* bug: the factor is 0.8, the backing comes out smaller than the logo box
LogoBgSizeSmaller(size) == (4 * size) \div 5

\* logo_bg_size = int(logo_size * 1.2); the float product truncates to
\* floor(6 * logo_size / 5) for every size below 200000
LogoBgSize(size) == (6 * size) \div 5

\* bug: the halving is missing, the backing lands at the lower right
CenteredNotHalved(outer_w, outer_h, inner_w, inner_h) ==
    <<outer_w - inner_w, outer_h - inner_h>>

\* ((outer_w - inner_w) // 2, (outer_h - inner_h) // 2)
Centered(outer_w, outer_h, inner_w, inner_h) ==
    <<(outer_w - inner_w) \div 2, (outer_h - inner_h) \div 2>>

EmbedFrame ==
    UNCHANGED <<entry, args, template_type, data, fields, result, qr_data,
                output_path, error_correction, terminal, logo_path, qr_type,
                ret, exit_code, files, qr_given>>

\* an exception leaves _embed_logo
EmbedRaise(name) ==
    /\ exc' = name
    /\ pc' = "raised"

\* if qr_img.mode != "RGB": qr_img = qr_img.convert("RGB")
EmbedConvert ==
    /\ pc = "embed_logo"
    /\ qr_img' = IF qr_img.mode # "RGB" THEN [qr_img EXCEPT !.mode = "RGB"]
                 ELSE qr_img
    /\ pc' = "embed_open"
    /\ UNCHANGED <<exc, events, logo, logo_size, logo_bg, logo_pos,
                   logo_pos_on_qr>>
    /\ EmbedFrame

\* logo = Image.open(logo_path)
EmbedOpen ==
    /\ pc = "embed_open"
    /\ events' = Append(events, Ev("Image.open", logo_path, <<>>))
    /\ \E fails \in BOOLEAN, file \in Logos :
          IF fails
          THEN /\ EmbedRaise("Image.open")
               /\ UNCHANGED logo
          ELSE /\ logo' = LogoImage(file.mode, file.w, file.h)
               /\ pc' = "embed_size"
               /\ UNCHANGED exc
    /\ UNCHANGED <<qr_img, logo_size, logo_bg, logo_pos, logo_pos_on_qr>>
    /\ EmbedFrame

\* qr_width, qr_height = qr_img.size; logo_size = min(...) // 5
EmbedSize ==
    /\ pc = "embed_size"
    /\ logo_size' = LogoSize(qr_img.w, qr_img.h)
    /\ pc' = "embed_thumbnail"
    /\ UNCHANGED <<exc, events, qr_img, logo, logo_bg, logo_pos,
                   logo_pos_on_qr>>
    /\ EmbedFrame

\* logo.thumbnail((logo_size, logo_size), Image.Resampling.LANCZOS); with a
\* box of height 0 thumbnail divides by zero
EmbedThumbnail ==
    /\ pc = "embed_thumbnail"
    /\ IF logo_size = 0
       THEN /\ EmbedRaise("ZeroDivisionError")
            /\ UNCHANGED logo
       ELSE /\ LET size == ThumbnailSize(logo.w, logo.h, logo_size, logo_size)
               IN logo' = LogoImage(logo.mode, size[1], size[2])
            /\ pc' = "embed_backing"
            /\ UNCHANGED exc
    /\ UNCHANGED <<events, qr_img, logo_size, logo_bg, logo_pos,
                   logo_pos_on_qr>>
    /\ EmbedFrame

\* logo_bg = Image.new("RGB", (logo_bg_size, logo_bg_size), "white"), then
\* the logo pasted at logo_pos, through its own alpha when it is RGBA
EmbedBacking ==
    /\ pc = "embed_backing"
    /\ LET logo_bg_size == LogoBgSize(logo_size)
           pos == Centered(logo_bg_size, logo_bg_size, logo.w, logo.h)
       IN /\ logo_pos' = pos
          /\ logo_bg' = Paste(NewWhite(logo_bg_size, logo_bg_size),
                              logo, pos, logo.mode = "RGBA")
    /\ pc' = "embed_paste"
    /\ UNCHANGED <<exc, events, qr_img, logo, logo_size, logo_pos_on_qr>>
    /\ EmbedFrame

\* logo_pos_on_qr = ...; qr_img.paste(logo_bg, logo_pos_on_qr); return qr_img
EmbedPaste ==
    /\ pc = "embed_paste"
    /\ LET pos == Centered(qr_img.w, qr_img.h, logo_bg.w, logo_bg.h)
       IN /\ logo_pos_on_qr' = pos
          /\ qr_img' = Paste(qr_img, logo_bg, pos, FALSE)
    /\ events' = Append(events, Ev("paste", logo_path, <<>>))
    /\ pc' = "done"
    /\ UNCHANGED <<exc, logo, logo_size, logo_bg, logo_pos>>
    /\ EmbedFrame

NextLogo ==
    \/ EmbedConvert
    \/ EmbedOpen
    \/ EmbedSize
    \/ EmbedThumbnail
    \/ EmbedBacking
    \/ EmbedPaste

-----------------------------------------------------------------------------
(* main *)

\* The command lines modelled: the value sets argparse admits.
MainData == {<<"a">>, <<"a", ",", "a">>, <<"a", ",", "&", ",", "a">>}
MainArgs ==
    [data : MainData,
     template : {None, "wifi", "vcard", "sms", "email", "phone"},
     output : OutputPaths,
     terminal : BOOLEAN,
     logo : {None, "logo.png"},
     type : QrTypes,
     error_correction : ErrorLevels]

MainFrame ==
    UNCHANGED <<entry, args, fields, result, ret, exc, files, logoVars>>

\* if args.template: data = _apply_template(...) else: data = args.data
MainTemplate ==
    /\ pc = "main"
    /\ IF Truthy(args.template)
       THEN /\ template_type' = args.template
            /\ data' = args.data
            /\ events' = Append(events,
                                Ev("_apply_template", args.template,
                                   args.data))
            /\ pc' = "apply_template"
            /\ UNCHANGED qr_data
       ELSE /\ qr_data' = args.data
            /\ pc' = "main_output"
            /\ UNCHANGED <<template_type, data, events>>
    /\ UNCHANGED <<output_path, error_correction, terminal, logo_path,
                   qr_type, exit_code>>
    /\ MainFrame

\* bug: the default is substituted without looking at --terminal
ResolvedOutputIgnoresTerminal(output, term) ==
    IF output = None THEN "qr_code.png" ELSE output

\* bug: the default-output substitution is missing
ResolvedOutputNoDefault(output, term) == output

\* output_path = args.output, replaced by "qr_code.png" when it is None and
\* --terminal is not set
ResolvedOutput(output, term) ==
    IF ~term /\ output = None THEN "qr_code.png" ELSE output

MainOutput ==
    /\ pc = "main_output"
    /\ output_path' = ResolvedOutput(args.output, args.terminal)
    /\ pc' = "main_check"
    /\ UNCHANGED <<template_type, data, qr_data, error_correction, terminal,
                   logo_path, qr_type, exit_code, events>>
    /\ MainFrame

\* if not args.terminal and output_path is None: ... return 1
\* otherwise the call of create_qr_code inside the try block
MainCheck ==
    /\ pc = "main_check"
    /\ IF ~args.terminal /\ output_path = None
       THEN /\ events' = Append(events,
                   Ev("stderr", "Error: Must specify --output or --terminal",
                      <<>>))
            /\ exit_code' = 1
            /\ pc' = "done"
            /\ UNCHANGED <<error_correction, terminal, logo_path, qr_type>>
       ELSE /\ error_correction' = args.error_correction
            /\ terminal' = args.terminal
            /\ logo_path' = args.logo
            /\ qr_type' = args.type
            /\ pc' = "create_qr_code"
            /\ UNCHANGED <<exit_code, events>>
    /\ UNCHANGED <<template_type, data, qr_data, output_path>>
    /\ MainFrame

NextMain ==
    \/ MainTemplate
    \/ MainOutput
    \/ MainCheck

\* main passes _apply_template only a kind argparse admits
Next == NextTemplateKind \/ NextCreate \/ NextMain

-----------------------------------------------------------------------------
(* Initial states *)

NoArgs ==
    [data |-> <<>>, template |-> None, output |-> None, terminal |-> FALSE,
     logo |-> None, type |-> "standard", error_correction |-> "M"]

InitTemplate ==
    /\ entry = "_apply_template"
    /\ pc = "apply_template"
    /\ args = NoArgs
    /\ template_type \in TemplateKinds
    /\ data \in Strs
    /\ fields = <<>>
    /\ result = <<>>
    /\ qr_data = <<>>
    /\ output_path = None
    /\ error_correction = "M"
    /\ terminal = FALSE
    /\ logo_path = None
    /\ qr_type = "standard"
    /\ ret = NotReturned
    /\ exit_code = NoExit
    /\ exc = None
    /\ events = <<>>
    /\ files = {}
    /\ NoLogoState

InitCreate ==
    /\ entry = "create_qr_code"
    /\ pc = "create_qr_code"
    /\ args = NoArgs
    /\ template_type = None
    /\ data = <<>>
    /\ fields = <<>>
    /\ result = <<>>
    /\ qr_data \in QrPayloads
    /\ output_path \in OutputPaths
    /\ error_correction \in ErrorLevels \cup {"X"}
    /\ terminal \in BOOLEAN
    /\ logo_path \in LogoPaths
    /\ qr_type \in QrTypes \cup {"other"}
    /\ ret = NotReturned
    /\ exit_code = NoExit
    /\ exc = None
    /\ events = <<>>
    /\ files = {}
    /\ NoLogoState

InitMain ==
    /\ entry = "main"
    /\ pc = "main"
    /\ args \in MainArgs
    /\ template_type = None
    /\ data = <<>>
    /\ fields = <<>>
    /\ result = <<>>
    /\ qr_data = <<>>
    /\ output_path = None
    /\ error_correction = "M"
    /\ terminal = FALSE
    /\ logo_path = None
    /\ qr_type = "standard"
    /\ ret = NotReturned
    /\ exit_code = NoExit
    /\ exc = None
    /\ events = <<>>
    /\ files = {}
    /\ NoLogoState

Init == InitCreate \/ InitMain

Spec == Init /\ [][Next]_vars

SpecTemplate == InitTemplate /\ [][NextTemplate]_vars

\* _embed_logo called with a QR image of any size up to MaxSide
InitLogo ==
    /\ entry = "_embed_logo"
    /\ pc = "embed_logo"
    /\ args = NoArgs
    /\ template_type = None
    /\ data = <<>>
    /\ fields = <<>>
    /\ result = <<>>
    /\ qr_data = <<>>
    /\ output_path = None
    /\ error_correction = "M"
    /\ terminal = FALSE
    /\ logo_path = "logo.png"
    /\ qr_type = "standard"
    /\ ret = NotReturned
    /\ exit_code = NoExit
    /\ exc = None
    /\ events = <<>>
    /\ files = {}
    /\ \E mode \in {"1", "RGB"}, w \in 1..MaxSide, h \in 1..MaxSide :
          /\ qr_given = QrImage(mode, w, h)
          /\ qr_img = qr_given
    /\ logo = NoImage
    /\ logo_size = 0
    /\ logo_bg = NoImage
    /\ logo_pos = <<0, 0>>
    /\ logo_pos_on_qr = <<0, 0>>

SpecLogo == InitLogo /\ [][NextLogo]_vars

-----------------------------------------------------------------------------
(* Properties of _apply_template, checked under SpecTemplate.  The fields  *)
(* of the raw input are described here by the positions of its commas, not *)
(* by the model's Split.                                                   *)

Commas(s) == {k \in DOMAIN s : s[k] = ","}
FieldCount(s) == Cardinality(Commas(s)) + 1

\* position of the k-th comma of s
NthComma(s, k) ==
    CHOOSE c \in Commas(s) : Cardinality({d \in Commas(s) : d < c}) = k - 1

\* the text from just after the k-th comma (the start, for k = 0) up to the
\* next comma or the end
FieldAfter(s, k) ==
    SubSeq(s,
           IF k = 0 THEN 1 ELSE NthComma(s, k) + 1,
           IF k < Cardinality(Commas(s)) THEN NthComma(s, k + 1) - 1
           ELSE Len(s))

\* the text after the k-th comma up to the end
RestAfter(s, k) == SubSeq(s, NthComma(s, k) + 1, Len(s))

Returned == entry = "_apply_template" /\ pc = "done"

InputEvents == SelectSeq(events, LAMBDA e : e.op = "input")

ValidEncryptions ==
    { <<"W", "P", "A">>, <<"W", "E", "P">>, <<"N", "O", "P", "A", "S", "S">> }

\* C1: a wifi input of exactly three comma-separated fields ssid, password,
\* encryption returns WIFI:T:<encryption>;S:<ssid>;P:<password>;; with the
\* three fields verbatim (no upper-casing, no validation, empty password
\* accepted) and without prompting.
C1_WifiThreeFieldsVerbatim ==
    (Returned /\ template_type = "wifi" /\ FieldCount(data) = 3) =>
        /\ result = <<"W", "I", "F", "I", ":", "T", ":">> \o FieldAfter(data, 2)
                    \o <<";", "S", ":">> \o FieldAfter(data, 0)
                    \o <<";", "P", ":">> \o FieldAfter(data, 1)
                    \o <<";", ";">>
        /\ events = <<>>

\* C1 witness: "a,,a" gives a lower-case encryption and an empty password.
C1_Witness ==
    /\ Returned
    /\ template_type = "wifi"
    /\ data = <<"a", ",", ",", "a">>
    /\ result = <<"W", "I", "F", "I", ":", "T", ":", "a", ";", "S", ":", "a",
                  ";", "P", ":", ";", ";">>

\* C2: sms splits on the first comma only: SMSTO:<before>:<after>, later
\* commas kept in the message; without a comma the whole input is the phone
\* and the message is empty.
C2_SmsFirstCommaOnly ==
    (Returned /\ template_type = "sms") =>
        result = IF Commas(data) = {}
                 THEN <<"S", "M", "S", "T", "O", ":">> \o data \o <<":">>
                 ELSE <<"S", "M", "S", "T", "O", ":">> \o FieldAfter(data, 0)
                      \o <<":">> \o RestAfter(data, 1)

\* C2 witness: a message that itself contains a comma.
C2_Witness ==
    /\ Returned
    /\ template_type = "sms"
    /\ data = <<"a", ",", "a", ",", "&">>
    /\ result = <<"S", "M", "S", "T", "O", ":", "a", ":", "a", ",", "&">>

\* C3: email splits on at most the first two commas: mailto:<address>
\* ?subject=<subject>&body=<body>, a missing subject or body empty, commas
\* after the second kept in the body, every field verbatim (no escaping).
C3_EmailTwoSplitsVerbatim ==
    (Returned /\ template_type = "email") =>
        result = <<"m", "a", "i", "l", "t", "o", ":">> \o FieldAfter(data, 0)
                 \o <<"?", "s", "u", "b", "j", "e", "c", "t", "=">>
                 \o (IF FieldCount(data) >= 2 THEN FieldAfter(data, 1)
                     ELSE <<>>)
                 \o <<"&", "b", "o", "d", "y", "=">>
                 \o (IF FieldCount(data) >= 3 THEN RestAfter(data, 2)
                     ELSE <<>>)

\* C3 witness: a body with a comma and a reserved character, inserted as is.
C3_Witness ==
    /\ Returned
    /\ template_type = "email"
    /\ data = <<"a", ",", ",", "&", ",">>
    /\ result = <<"m", "a", "i", "l", "t", "o", ":", "a",
                  "?", "s", "u", "b", "j", "e", "c", "t", "=",
                  "&", "b", "o", "d", "y", "=", "&", ",">>

C4_OptionalLine(tag, k) ==
    IF FieldCount(data) >= k /\ FieldAfter(data, k - 1) # <<>>
    THEN tag \o FieldAfter(data, k - 1) \o <<"\n">>
    ELSE <<>>

\* C4: a vcard input of at least two fields returns BEGIN:VCARD, VERSION:3.0,
\* FN:<field1>, then TEL:<field2>, EMAIL:<field3>, ORG:<field4>, each only
\* when its field exists and is not empty, then END:VCARD without a trailing
\* newline; fields after the fourth are dropped.
C4_VcardLines ==
    (Returned /\ template_type = "vcard" /\ FieldCount(data) >= 2) =>
        /\ result =
              <<"B", "E", "G", "I", "N", ":", "V", "C", "A", "R", "D", "\n">>
              \o <<"V", "E", "R", "S", "I", "O", "N", ":", "3", ".", "0", "\n">>
              \o <<"F", "N", ":">> \o FieldAfter(data, 0) \o <<"\n">>
              \o C4_OptionalLine(<<"T", "E", "L", ":">>, 2)
              \o C4_OptionalLine(<<"E", "M", "A", "I", "L", ":">>, 3)
              \o C4_OptionalLine(<<"O", "R", "G", ":">>, 4)
              \o <<"E", "N", "D", ":", "V", "C", "A", "R", "D">>
        /\ result[Len(result)] # "\n"

\* C4 witness: five fields, of which the phone and the email are empty and
\* the fifth is not: only ORG appears.
C4_Witness ==
    /\ Returned
    /\ template_type = "vcard"
    /\ data = <<",", ",", ",", "a", ",", "a">>
    /\ result =
          <<"B", "E", "G", "I", "N", ":", "V", "C", "A", "R", "D", "\n">>
          \o <<"V", "E", "R", "S", "I", "O", "N", ":", "3", ".", "0", "\n">>
          \o <<"F", "N", ":", "\n">>
          \o <<"O", "R", "G", ":", "a", "\n">>
          \o <<"E", "N", "D", ":", "V", "C", "A", "R", "D">>

\* C5: phone returns tel:<raw> whatever the raw input holds, and every kind
\* outside wifi, vcard, sms, email, phone returns the raw input unchanged.
C5_PhoneAndPassthrough ==
    /\ (Returned /\ template_type = "phone") =>
           result = <<"t", "e", "l", ":">> \o data
    /\ (Returned /\ template_type \notin
                        {"wifi", "vcard", "sms", "email", "phone"}) =>
           result = data

\* C5 witness: a phone input with commas in it.
C5_Witness ==
    /\ Returned
    /\ template_type = "phone"
    /\ data = <<"a", ",", "a", ",">>
    /\ result = <<"t", "e", "l", ":", "a", ",", "a", ",">>

Prompting ==
    \/ pc \in {"wifi_ssid", "wifi_password", "wifi_encryption", "vcard_name",
               "vcard_phone", "vcard_email", "vcard_org"}
    \/ \E k \in DOMAIN events : events[k].op \in {"input", "print"}

\* C6: once _apply_template has run its test, it is prompting (or has
\* prompted) exactly when the kind is wifi and the input does not have
\* exactly 3 fields, or the kind is vcard and the input has fewer than 2.
C6_PromptIffFieldCountWrong ==
    (entry = "_apply_template" /\ pc # "apply_template") =>
        (Prompting <=>
            \/ template_type = "wifi" /\ FieldCount(data) # 3
            \/ template_type = "vcard" /\ FieldCount(data) < 2)

\* C6 witness: a wifi input of four fields has been answered by three prompts.
C6_Witness ==
    /\ Returned
    /\ template_type = "wifi"
    /\ FieldCount(data) = 4
    /\ Len(InputEvents) = 3

\* C7: on the wifi interactive path the result is built from the three lines
\* read in the order ssid, password, encryption and not from the raw input;
\* the encryption is the upper-cased line when that is WPA, WEP or NOPASS and
\* WPA otherwise.
C7_WifiInteractive ==
    (Returned /\ template_type = "wifi" /\ FieldCount(data) # 3) =>
        /\ Len(events) = 4
        /\ events[1].op = "print"
        /\ events[2].op = "input" /\ events[2].arg = "Network SSID: "
        /\ events[3].op = "input" /\ events[3].arg = "Password: "
        /\ events[4].op = "input"
        /\ events[4].arg = "Encryption (WPA/WEP/nopass): "
        /\ LET typed == Upper(events[4].data)
               encryption == IF typed \in ValidEncryptions THEN typed
                             ELSE <<"W", "P", "A">>
           IN /\ encryption \in ValidEncryptions
              /\ result = <<"W", "I", "F", "I", ":", "T", ":">> \o encryption
                          \o <<";", "S", ":">> \o events[2].data
                          \o <<";", "P", ":">> \o events[3].data
                          \o <<";", ";">>

\* C7 witness: "nopass" typed in lower case comes out as NOPASS.
C7_Witness ==
    /\ Returned
    /\ template_type = "wifi"
    /\ data = <<"a">>
    /\ Len(events) = 4
    /\ events[4].data = <<"n", "o", "p", "a", "s", "s">>
    /\ result = <<"W", "I", "F", "I", ":", "T", ":", "N", "O", "P", "A", "S",
                  "S", ";", "S", ":", "a", ";", "P", ":", ";", ";">>

-----------------------------------------------------------------------------
(* Properties of create_qr_code, checked under Spec: direct calls and the  *)
(* calls main makes.  An output path is supplied when the code's test      *)
(* `if output_path:` passes, that is when it is neither None nor empty.    *)

CreateReturned == ret # NotReturned

TerminalRenders ==
    SelectSeq(events, LAMBDA e : e.op \in {"print_ascii", "qr.terminal"})

MicroEncoderCalls == SelectSeq(events, LAMBDA e : e.op = "segno.make_micro")

\* C8: in both variants a create_qr_code call that completes returns the
\* output path unchanged when one was supplied and None when none was.
C8_ReturnsPathOrNone ==
    CreateReturned =>
        /\ (output_path \notin {None, ""}) => ret = output_path
        /\ (output_path \in {None, ""}) => ret = None

\* C8 witness: a micro call with an output path has returned that path.
C8_Witness ==
    /\ entry = "create_qr_code"
    /\ qr_type = "micro"
    /\ output_path = "out.png"
    /\ pc = "done"
    /\ ret = "out.png"

\* C9: a terminal render happens only with the terminal flag and a file is
\* written only to a supplied output path; a generation that completes has
\* rendered exactly once iff the flag is set and has written the file iff a
\* path was supplied, each independently of the other switch.
C9_EffectsFollowSwitches ==
    /\ Len(TerminalRenders) > 0 => terminal
    /\ files # {} => (output_path \notin {None, ""} /\ files = {output_path})
    /\ CreateReturned =>
          /\ Len(TerminalRenders) = (IF terminal THEN 1 ELSE 0)
          /\ files = (IF output_path \in {None, ""} THEN {}
                      ELSE {output_path})

\* C9 witness: a terminal-only request has rendered and written no file.
C9_Witness ==
    /\ CreateReturned
    /\ terminal
    /\ output_path = None
    /\ Len(TerminalRenders) = 1
    /\ files = {}
    /\ ret = None

\* C10: the micro encoder is given Q for H, the requested level for L, M, Q
\* and M for anything else, hence never H; a request with H makes the one
\* encoder call that the same request with Q makes.
C10_MicroLevelRemap ==
    /\ \A k \in DOMAIN events :
          events[k].op = "segno.make_micro" =>
             /\ events[k].arg # "H"
             /\ events[k].arg = (IF error_correction = "H" THEN "Q"
                                 ELSE IF error_correction \in {"L", "M", "Q"}
                                      THEN error_correction
                                      ELSE "M")
             /\ events[k].data = qr_data
    /\ (CreateReturned /\ qr_type = "micro"
           /\ error_correction \in {"H", "Q"}) =>
          MicroEncoderCalls = <<[op |-> "segno.make_micro", arg |-> "Q",
                                 data |-> qr_data]>>

\* C10 witness: a micro generation requested with H has completed, the
\* encoder having been given Q.
C10_Witness ==
    /\ CreateReturned
    /\ qr_type = "micro"
    /\ error_correction = "H"
    /\ Len(MicroEncoderCalls) = 1
    /\ MicroEncoderCalls[1].arg = "Q"
    /\ files = {"out.png"}

-----------------------------------------------------------------------------
(* Properties of the standard variant and of main, checked under Spec.     *)

StandardEncoderCalls == SelectSeq(events, LAMBDA e : e.op = "qrcode.make")

\* main has passed the statement that determines output_path
MainPastOutput ==
    /\ entry = "main"
    /\ pc \notin {"main", "apply_template", "wifi_ssid", "wifi_password",
                  "wifi_encryption", "vcard_name", "vcard_phone",
                  "vcard_email", "vcard_org", "main_output", "raised"}

\* C11: the standard encoder is given the requested level for L, M, Q and H
\* without remapping, and M for any other value, which raises no error.
C11_StandardLevelOneToOne ==
    \A k \in DOMAIN events :
        events[k].op = "qrcode.make" =>
           /\ error_correction = "L" => events[k].arg = "L"
           /\ error_correction = "M" => events[k].arg = "M"
           /\ error_correction = "Q" => events[k].arg = "Q"
           /\ error_correction = "H" => events[k].arg = "H"
           /\ error_correction \notin {"L", "M", "Q", "H"} =>
                 events[k].arg = "M"

\* C11 witness: a call with an unknown level has completed with the encoder
\* given M.
C11_Witness ==
    /\ entry = "create_qr_code"
    /\ error_correction = "X"
    /\ CreateReturned
    /\ exc = None
    /\ Len(StandardEncoderCalls) = 1
    /\ StandardEncoderCalls[1].arg = "M"

\* C12: main uses an explicit --output as given; without --output the path is
\* qr_code.png when --terminal is not set and stays unset, with no file
\* written, when it is set.
C12_OutputResolution ==
    /\ MainPastOutput =>
          /\ args.output # None => output_path = args.output
          /\ (args.output = None /\ ~args.terminal) =>
                output_path = "qr_code.png"
          /\ (args.output = None /\ args.terminal) => output_path = None
    /\ (entry = "main" /\ args.output = None /\ args.terminal) => files = {}

\* C12 witness: no --output and no --terminal: the image went to qr_code.png.
C12_Witness ==
    /\ entry = "main"
    /\ args.output = None
    /\ ~args.terminal
    /\ exit_code = 0
    /\ files = {"qr_code.png"}

\* C13: main returns 0 exactly when create_qr_code returned, and returns 1,
\* with a report on standard error as its last output, when create_qr_code
\* raised; no exception of create_qr_code leaves main.
C13_ExitCodes ==
    entry = "main" =>
        /\ exit_code = 0 <=> CreateReturned
        /\ exit_code = 1 =>
              /\ events # <<>>
              /\ events[Len(events)].op = "stderr"
        /\ (pc = "done") => exit_code \in {0, 1}
        /\ (pc = "raised") =>
              /\ exc = "EOFError"
              /\ \A k \in DOMAIN events :
                    events[k].op \in {"_apply_template", "print", "input"}

\* C13 witness: the logo could not be opened and main returned 1.
C13_Witness ==
    /\ entry = "main"
    /\ pc = "done"
    /\ exit_code = 1
    /\ exc = None
    /\ Len(events) >= 2
    /\ events[Len(events) - 1].op = "Image.open"
    /\ events[Len(events)].op = "stderr"

EncoderOps == {"qrcode.make", "segno.make_micro"}
RenderOps == {"print_ascii", "qr.terminal"}
SaveOps == {"img.save", "qr.save"}

EncoderCalls == SelectSeq(events, LAMBDA e : e.op \in EncoderOps)
OpsOf(evs) == [k \in DOMAIN evs |-> evs[k].op]
Count(op) == Len(SelectSeq(events, LAMBDA e : e.op = op))

\* the call whose exception ended create_qr_code, None when there is none
FailedCall ==
    IF entry = "main"
    THEN IF /\ events # <<>>
            /\ events[Len(events)].op = "stderr"
            /\ events[Len(events)].data # <<>>
         THEN events[Len(events)].data[1]
         ELSE None
    ELSE IF pc = "raised" THEN exc ELSE None

\* C15: the logo is composited iff the variant is not micro, an output path
\* is set and a logo path is set: once, after rasterization and before the
\* save.  Otherwise the logo file is never opened.
C15_LogoOnlyStandardWithOutput ==
    /\ Count("Image.open") <= 1
    /\ Count("paste") <= 1
    /\ \A k \in DOMAIN events :
          events[k].op \in {"Image.open", "paste"} =>
             /\ qr_type # "micro"
             /\ output_path \notin {None, ""}
             /\ logo_path \notin {None, ""}
             /\ events[k].arg = logo_path
             /\ \E i \in 1..(k - 1) : events[i].op = "make_image"
             /\ \A i \in 1..k : events[i].op \notin SaveOps
    /\ CreateReturned =>
          (Count("paste") = 1 <=>
              /\ qr_type # "micro"
              /\ output_path \notin {None, ""}
              /\ logo_path \notin {None, ""})
    /\ (CreateReturned /\ Count("paste") = 1) =>
          \E k \in DOMAIN events :
              /\ k + 3 = Len(events)
              /\ OpsOf(SubSeq(events, k, k + 3))
                    = <<"make_image", "Image.open", "paste", "img.save">>

\* C15 witness: a micro request with an output path and a logo path has
\* written its file without opening the logo.
C15_Witness ==
    /\ CreateReturned
    /\ qr_type = "micro"
    /\ logo_path = "logo.png"
    /\ files = {"out.png"}
    /\ Count("Image.open") = 0

\* C16: the encoder is invoked once, for the requested variant and level;
\* when that call fails there is no retry, no terminal render and no file,
\* the exception reaches the caller and main returns 1.
C16_EncoderFailurePropagates ==
    /\ Len(EncoderCalls) <= 1
    /\ \A k \in DOMAIN events :
          events[k].op \in EncoderOps =>
             /\ events[k].op = "segno.make_micro" <=> qr_type = "micro"
             /\ events[k].data = qr_data
             /\ events[k].arg \in {"L", "M", "Q", "H"}
             /\ error_correction \in {"L", "M", "Q"} =>
                   events[k].arg = error_correction
             /\ (error_correction = "H" /\ qr_type # "micro") =>
                   events[k].arg = "H"
    /\ FailedCall \in EncoderOps =>
          /\ Len(EncoderCalls) = 1
          /\ \A k \in DOMAIN events :
                events[k].op \notin RenderOps \cup SaveOps \cup {"make_image"}
          /\ files = {}
          /\ ret = NotReturned
          /\ entry = "main" => (pc = "done" /\ exit_code = 1)
          /\ entry # "main" => (pc = "raised" /\ exit_code = NoExit)

\* C16 witness: the micro encoder failed on a request for both a terminal
\* render and a file; main returned 1 with neither done.
C16_Witness ==
    /\ entry = "main"
    /\ args.type = "micro"
    /\ args.terminal
    /\ args.output = "out.png"
    /\ FailedCall = "segno.make_micro"
    /\ exit_code = 1
    /\ files = {}

Rank(op) ==
    CASE op = "_apply_template" -> 1
      [] op \in {"print", "input"} -> 2
      [] op \in EncoderOps -> 3
      [] op \in RenderOps -> 4
      [] op = "make_image" -> 5
      [] op = "Image.open" -> 6
      [] op = "paste" -> 7
      [] op \in SaveOps -> 8
      [] OTHER -> 9

\* C17: an invocation of main runs, in this order and each at most once, the
\* template format (with its prompts), the symbol construction by the
\* encoder of the requested variant, the terminal render, the rasterization,
\* the logo composite and the save; an invocation that returns has
\* constructed exactly one symbol.
C17_MainOrder ==
    entry = "main" =>
        /\ \A i, j \in DOMAIN events :
              i < j =>
                 /\ Rank(events[i].op) <= Rank(events[j].op)
                 /\ Rank(events[i].op) = Rank(events[j].op) =>
                       Rank(events[i].op) = 2
        /\ pc # "main" =>
              Count("_apply_template") = (IF args.template = None THEN 0
                                          ELSE 1)
        /\ \A k \in DOMAIN events :
              events[k].op \in EncoderOps =>
                 (events[k].op = "segno.make_micro" <=> args.type = "micro")
        /\ exit_code # NoExit => Len(EncoderCalls) = 1

\* C17 witness: a templated standard request with terminal render, logo and
\* file has run every stage once, in order.
C17_Witness ==
    /\ entry = "main"
    /\ exit_code = 0
    /\ OpsOf(events) = <<"_apply_template", "qrcode.make", "print_ascii",
                         "make_image", "Image.open", "paste", "img.save">>

\* C18: at main's check the state (terminal not set, output path None) does
\* not occur, so the must-specify branch is never taken.
C18_MustSpecifyUnreachable ==
    /\ (entry = "main" /\ pc = "main_check") =>
          ~(~args.terminal /\ output_path = None)
    /\ \A k \in DOMAIN events :
          events[k].arg # "Error: Must specify --output or --terminal"

\* C18 witness: main is at the check with neither --output nor --terminal
\* given, and the default has been substituted.
C18_Witness ==
    /\ entry = "main"
    /\ pc = "main_check"
    /\ args.output = None
    /\ ~args.terminal
    /\ output_path = "qr_code.png"

\* C19 as stated: whenever main returns 0, an image file was written or a
\* terminal render was performed.
C19_ReturnZeroDidSomething ==
    (entry = "main" /\ exit_code = 0) =>
        (files # {} \/ TerminalRenders # <<>>)

-----------------------------------------------------------------------------
(* _embed_logo: claims *)

\* _embed_logo has returned qr_img
EmbedReturned == entry = "_embed_logo" /\ pc = "done"

\* the edge of the backing square the documentation gives for a W x H image
DocSide(W, H) == (12 * ((IF W <= H THEN W ELSE H) \div 5)) \div 10

\* p lies in the square of the given edge whose upper left corner is at
\* (x0, y0)
InSquare(p, x0, y0, edge) ==
    /\ x0 <= p[1] /\ p[1] < x0 + edge
    /\ y0 <= p[2] /\ p[2] < y0 + edge

\* C14: the image _embed_logo returns has the width and height of the image
\* it was given, and every pixel outside the centred square of edge
\* floor(1.2 * floor(min(W, H) / 5)) at (floor((W - edge) / 2),
\* floor((H - edge) / 2)) is the pixel of the image it was given.
C14_OnlyCenterSquareChanges ==
    EmbedReturned =>
        LET W == qr_img.w
            H == qr_img.h
            edge == DocSide(W, H)
            x0 == (W - edge) \div 2
            y0 == (H - edge) \div 2
        IN /\ W = qr_given.w /\ H = qr_given.h
           /\ DOMAIN qr_img.px = DOMAIN qr_given.px
           /\ \A p \in DOMAIN qr_img.px :
                 ~InSquare(p, x0, y0, edge) => qr_img.px[p] = qr_given.px[p]

\* a 25 x 23 image came back with the backing, logo on it, in its centre
C14_Witness ==
    /\ EmbedReturned
    /\ qr_given.w = 25 /\ qr_given.h = 23
    /\ qr_given.px[<<10, 9>>] = "light"
    /\ qr_img.px[<<0, 0>>] = "dark"
    /\ qr_img.px[<<10, 9>>] = "white"
    /\ qr_img.px[<<12, 11>>] = "logo"

\* C20: with target = floor(min(W, H) / 5) and side the backing edge,
\* target <= side <= min(W, H), the offsets of the backing on the image are
\* non-negative and the backing lies inside the image; the fitted logo is at
\* most target x target, its offsets on the backing are non-negative and it
\* lies inside the backing.
C20_GeometryInBounds ==
    (entry = "_embed_logo"
        /\ pc \in {"embed_thumbnail", "embed_backing", "embed_paste", "done"}) =>
        LET W == qr_img.w
            H == qr_img.h
            least == IF W <= H THEN W ELSE H
            target == logo_size
            side == LogoBgSize(target)
            pos == Centered(W, H, side, side)
        IN /\ target = least \div 5
           /\ side = (12 * target) \div 10
           /\ target <= side /\ side <= least
           /\ pos[1] >= 0 /\ pos[2] >= 0
           /\ pos[1] + side <= W /\ pos[2] + side <= H
           /\ pc \in {"embed_backing", "embed_paste", "done"} =>
                 /\ 1 <= logo.w /\ logo.w <= target
                 /\ 1 <= logo.h /\ logo.h <= target
                 /\ LET on_bg == Centered(side, side, logo.w, logo.h)
                    IN /\ on_bg[1] >= 0 /\ on_bg[2] >= 0
                       /\ on_bg[1] + logo.w <= side
                       /\ on_bg[2] + logo.h <= side
           /\ pc \in {"embed_paste", "done"} =>
                 /\ logo_bg.w = side /\ logo_bg.h = side
                 /\ logo_pos[1] >= 0 /\ logo_pos[2] >= 0
                 /\ logo_pos[1] + logo.w <= logo_bg.w
                 /\ logo_pos[2] + logo.h <= logo_bg.h
           /\ pc = "done" =>
                 /\ logo_pos_on_qr = pos
                 /\ \A p \in DOMAIN qr_img.px :
                       qr_img.px[p] \in {"white", "logo"}
                           => InSquare(p, pos[1], pos[2], side)

\* a 40 x 10 logo was fitted into the 5 x 5 box of a 25 x 25 image and sits
\* on a backing of edge 6
C20_Witness ==
    /\ EmbedReturned
    /\ qr_img.w = 25 /\ qr_img.h = 25
    /\ logo_size = 5
    /\ logo_bg.w = 6
    /\ logo.w = 5 /\ logo.h = 1
    /\ logo_pos = <<0, 2>>
    /\ logo_pos_on_qr = <<9, 9>>
-----------------------------------------------------------------------------
(* main: failures *)

\* the input stream ended at a prompt of _apply_template
PromptHitEof ==
    \E k \in DOMAIN events :
        events[k].op = "input" /\ events[k].data = EOF

\* C21: when _apply_template raises inside main (the input ends at a wifi or
\* vcard prompt) the exception leaves main: main returns no exit code and
\* reports nothing, create_qr_code is not called, nothing is rendered and no
\* file is written.
C21_TemplateRaiseEscapesMain ==
    (entry = "main" /\ PromptHitEof) =>
        /\ pc = "raised"
        /\ exc = "EOFError"
        /\ exit_code = NoExit
        /\ ret = NotReturned
        /\ files = {}
        /\ events[Len(events)].op = "input"
        /\ events[Len(events)].data = EOF
        /\ \A k \in DOMAIN events :
              events[k].op \in {"_apply_template", "print", "input"}

\* C21 witness: a wifi request with --terminal and --output answered the
\* first prompt, then the input ended; main was left by the exception.
C21_Witness ==
    /\ entry = "main"
    /\ args.template = "wifi"
    /\ args.terminal
    /\ args.output = "out.png"
    /\ pc = "raised"
    /\ exc = "EOFError"
    /\ Len(SelectSeq(events, LAMBDA e : e.op = "input")) = 2
    /\ events[Len(events)].data = EOF
    /\ exit_code = NoExit

\* the calls after the terminal render: rasterize, composite, save
LateOps == {"make_image", "Image.open", "img.save", "qr.save"}

\* the terminal render is in the log before position k
RenderedBefore(k) ==
    \E j \in 1..(k - 1) : events[j].op \in {"print_ascii", "qr.terminal"}

\* C22: a failure after the terminal render undoes nothing: when the logo
\* cannot be loaded in a standard request with terminal flag, output path and
\* logo path, the render has been performed, no file is written and main
\* returns 1; a failure in rasterize, composite or save leaves the render of
\* a request with the terminal flag in place.
C22_NoRollbackOnLateFailure ==
    /\ FailedCall = "Image.open" =>
          /\ qr_type # "micro"
          /\ output_path \notin {None, ""}
          /\ logo_path \notin {None, ""}
          /\ files = {}
          /\ \A k \in DOMAIN events : events[k].op \notin {"img.save", "qr.save"}
          /\ terminal => Len(TerminalRenders) = 1
          /\ entry = "main" => exit_code = 1
    /\ (FailedCall \in LateOps /\ terminal) =>
          /\ Len(TerminalRenders) = 1
          /\ \A k \in DOMAIN events :
                events[k].op = FailedCall => RenderedBefore(k)

\* C22 witness: main, standard, --terminal, --output and --logo: the logo
\* could not be opened after the render; main returned 1, no file.
C22_Witness ==
    /\ entry = "main"
    /\ args.type = "standard"
    /\ args.terminal
    /\ args.output = "out.png"
    /\ args.logo = "logo.png"
    /\ FailedCall = "Image.open"
    /\ Len(TerminalRenders) = 1
    /\ TerminalRenders[1].op = "print_ascii"
    /\ exit_code = 1
    /\ files = {}
====
